---- MODULE Spec2Model ----
(***************************************************************************)
(* Model of src/main.py: the LINE webhook endpoint callback() and the text *)
(* message handler handle_message(), with the process-wide dictionary      *)
(* user_sessions.  Webhook calls are served by concurrent threads (the     *)
(* Flask server started at the bottom of main.py is multi-threaded), so a  *)
(* call is a sequence of steps, one per access to user_sessions, and the   *)
(* steps of the calls in flight interleave.  A step that touches only the  *)
(* call's own locals or an external service is taken together with the     *)
(* step before it.  callback() runs handle_message synchronously, inside   *)
(* handler.handle, and answers the webhook call after it has returned.     *)
(***************************************************************************)
EXTENDS Integers, Sequences, FiniteSets, TLC

\* ---------------------------------------------------------------- bounds
\* Daily quota and context window (20 and 6 in main.py), scaled down.
MAX_GEMINI_REQUESTS_PER_DAY == 2
MAX_CONTEXT_TURNS == 1
\* Calendar days 0..MaxDay.
MaxDay == 1
\* Text message events delivered in one run.
MaxMessages == 4

\* Threads serving webhook calls, LINE users, generated texts, event kinds.
WorkerThreads == {"t1", "t2"}
Users == {"u1", "u2"}
\* Sessions of different users share nothing but the dictionary: Spec
\* delivers the events of one user.
OneUser == {"u1"}
GeneratedTexts == {"x"}
EventKinds == {"text", "other"}

\* The k-th text message event delivered carries the text MessageTexts[k]:
\* every message of a run is told apart from the others.
MessageTexts == <<"m1", "m2", "m3", "m4", "m5", "m6", "m7", "m8">>
TextIndex(text) == CHOOSE k \in 1..Len(MessageTexts) : MessageTexts[k] = text

\* ------------------------------------------------------------- constants
CHANNEL_SECRET == 5

GEMINI_LIMIT_MESSAGE == "GEMINI_LIMIT_MESSAGE"
DEFAULT_RESPONSE == "cannot process the message now"
GEMINI_ERROR_MESSAGE == "error while talking to Gemini"
UNEXPECTED_FORMAT_MESSAGE == "unexpected Gemini response format"
DEFAULT_DISPLAY_NAME == "kanrisha"
PROFILE_DISPLAY_NAME == "display_name"
MANAGEMENT_SUPPORT_SYSTEM_PROMPT == "MANAGEMENT_SUPPORT_SYSTEM_PROMPT"
SYSTEM_ACK == "hai, shouchi itashimashita"

\* The two fixed turns every chat history sent to Gemini starts with.
Preamble ==
    << <<"user", MANAGEMENT_SUPPORT_SYSTEM_PROMPT>>, <<"model", SYSTEM_ACK>> >>

\* f"{user_display_name}san, " + INITIAL_MESSAGE
PersonalizedInitialMessage(name) ==
    IF name = DEFAULT_DISPLAY_NAME
    THEN "kanrisha-san, INITIAL_MESSAGE"
    ELSE "display_name-san, INITIAL_MESSAGE"

WelcomeMessages ==
    {PersonalizedInitialMessage(n) :
        n \in {DEFAULT_DISPLAY_NAME, PROFILE_DISPLAY_NAME}}

VARIABLES
    user_sessions,    \* the dictionary user_id -> session
    today,            \* what datetime.date.today() returns
    calls,            \* the webhook calls in flight, one per busy thread
    delivered_events  \* text message events delivered so far

vars == <<user_sessions, today, calls, delivered_events>>

\* ------------------------------------------------------------- signature
Bodies(users) ==
    [user_id : users, text : {MessageTexts[k] : k \in 1..MaxMessages},
     kind : EventKinds]

\* The request body as the number its bytes stand for.
BodyCode(body) ==
    (IF body.user_id = "u1" THEN 0 ELSE 1)
    + (IF body.kind = "text" THEN 0 ELSE 2)
    + 4 * TextIndex(body.text)

\* base64(HMAC-SHA256(secret, body)): a keyed tag, different for different
\* bodies and for different secrets.
Hmac(secret, body) == <<(secret * 131 + BodyCode(body) * 17 + 3) % 251>>

\* The X-Line-Signature header: absent, or a string (possibly empty).
NoHeader == [present |-> FALSE, value |-> <<>>]
Header(v) == [present |-> TRUE, value |-> v]

\* The headers a call with this body is tried with: none, the empty string,
\* the body's signature, the signature under another secret, and the
\* signature of a body that differs in its text.
OtherText(body) ==
    [body EXCEPT !.text = MessageTexts[(TextIndex(body.text) % MaxMessages) + 1]]
HeadersFor(body) ==
    {NoHeader, Header(<<>>),
     Header(Hmac(CHANNEL_SECRET, body)),
     Header(Hmac(CHANNEL_SECRET + 1, body)),
     Header(Hmac(CHANNEL_SECRET, OtherText(body)))}

\* `if not signature`
SignatureMissing(signature) == ~signature.present \/ signature.value = <<>>

\* A comparison that accepts every signature that is present.
SignatureMatchesAnything(body, signature) == TRUE

\* `calculated_signature != signature`, and the SDK's own check in
\* handler.handle(body, signature), which raises InvalidSignatureError.
SignatureMatches(body, signature) ==
    signature.value = Hmac(CHANNEL_SECRET, body)

\* ------------------------------------------------------------- the state
\* A call: where it is (pc), the locals of handle_message, and the record of
\* what it has done (path, ai_calls, ai_result, profile, sent, comparisons).
NoCall ==
    [pc |-> "-", user_id |-> "-", user_message |-> "-", current_date |-> 0,
     seen |-> "-", start_index |-> 0, chat_history |-> <<>>,
     response_text |-> "-", count_read |-> 0, detached |-> FALSE,
     path |-> "-", ai_calls |-> 0, ai_result |-> "-", profile |-> "-",
     sent |-> <<>>, status |-> 0, authentic |-> FALSE, comparisons |-> 0]

NewSession(date) ==
    [history |-> <<>>, request_count |-> 0, last_request_date |-> date]

Init ==
    /\ user_sessions = << >>
    /\ today = 0
    /\ calls = {}
    /\ delivered_events = 0

\* The clock passes midnight.
AdvanceDay ==
    /\ today < MaxDay
    /\ today' = today + 1
    /\ UNCHANGED <<user_sessions, calls, delivered_events>>

\* ------------------------------------------------------------- callback()
\* What callback() answers: abort(400) at lines 140 and 181, abort(500) at
\* line 185, 'OK' at line 187.
ResponseStatus(outcome) ==
    IF outcome \in {"missing signature", "invalid signature"} THEN 400
    ELSE IF outcome = "exception" THEN 500
    ELSE 200

\* The call is about to answer.
Responding(c, outcome) ==
    [c EXCEPT !.pc = "respond", !.status = ResponseStatus(outcome)]

\* Lines 135-173 and, for a text message event, 191-198: the header check,
\* the manual comparison (whose abort(400) the `except Exception` around it
\* swallows), the SDK's comparison, and the entry into handle_message up to
\* the read of the clock.
CallbackResult(body, signature, date) ==
    IF SignatureMissing(signature)
    THEN Responding(NoCall, "missing signature")
    ELSE IF ~SignatureMatches(body, signature)
    THEN Responding([NoCall EXCEPT !.comparisons = 2], "invalid signature")
    ELSE IF body.kind # "text"
    THEN Responding([NoCall EXCEPT !.comparisons = 2, !.authentic = TRUE],
                    "ok")
    ELSE [NoCall EXCEPT !.pc = "check", !.user_id = body.user_id,
                        !.user_message = body.text, !.current_date = date,
                        !.response_text = DEFAULT_RESPONSE,
                        !.authentic = TRUE, !.comparisons = 2]

Callback(body, signature) ==
    /\ Cardinality(calls) < Cardinality(WorkerThreads)
    /\ delivered_events < MaxMessages
    /\ body.text = MessageTexts[delivered_events + 1]
    /\ LET c == CallbackResult(body, signature, today)
       IN /\ calls' = calls \cup {c}
          /\ delivered_events' =
                IF c.pc = "check" THEN delivered_events + 1
                ELSE delivered_events
    /\ UNCHANGED <<user_sessions, today>>

\* Line 187, or the abort: the webhook caller gets its answer.
Respond(c) ==
    /\ c.pc = "respond"
    /\ calls' = calls \ {c}
    /\ UNCHANGED <<user_sessions, today, delivered_events>>

\* ------------------------------------------------------- handle_message()
Session(c) == user_sessions[c.user_id]

\* The call c goes on as d.
Step(c, d) == calls' = (calls \ {c}) \cup {d}

\* event.reply_token: every event delivered has a token of its own.
ReplyToken(c) == <<"reply_token", c.user_message>>

\* A reply_message that is tried again when it fails.
DispatchedWithRetry(c, delivered) ==
    LET attempt == [reply_token |-> ReplyToken(c), text |-> c.response_text,
                    delivered |-> delivered]
    IN IF delivered THEN Append(c.sent, attempt)
       ELSE Append(Append(c.sent, attempt), attempt)

\* line_bot_api.reply_message(...) inside try/except: one attempt with the
\* event's reply token; a failure is logged and nothing else happens.
Dispatched(c, delivered) ==
    Append(c.sent, [reply_token |-> ReplyToken(c), text |-> c.response_text,
                    delivered |-> delivered])

\* A reply_message outside try/except: its exception reaches callback().
ReturningUnlessReplyFails(c, delivered) ==
    Responding([c EXCEPT !.sent = Dispatched(c, delivered),
                         !.current_date = 0],
               IF delivered THEN "ok" ELSE "exception")

\* handle_message has replied and returns 'OK' to handler.handle, which
\* returns to callback(): the other locals are dead.
Returning(c, delivered) ==
    Responding([c EXCEPT !.sent = Dispatched(c, delivered),
                         !.current_date = 0], "ok")

\* A check that resets only a user without a session.
NeedsResetWithoutDate(user_id, current_date) ==
    user_id \notin DOMAIN user_sessions

\* Line 202: no session, or a session last used on another date.
NeedsReset(user_id, current_date) ==
    \/ user_id \notin DOMAIN user_sessions
    \/ user_sessions[user_id].last_request_date # current_date

\* What the check of line 202 found (kept for the record of the run).
Seen(user_id) ==
    IF user_id \notin DOMAIN user_sessions THEN "no session"
    ELSE IF user_sessions[user_id].request_count
               >= MAX_GEMINI_REQUESTS_PER_DAY
    THEN "other date, quota used up"
    ELSE "other date"

Check(c) ==
    /\ c.pc = "check"
    /\ IF NeedsReset(c.user_id, c.current_date)
       THEN Step(c, [c EXCEPT !.pc = "reset", !.path = "new",
                              !.seen = Seen(c.user_id)])
       ELSE Step(c, [c EXCEPT !.pc = "quota"])
    /\ UNCHANGED <<user_sessions, today, delivered_events>>

\* `user_sessions = {user_id: {...}}`: the whole dictionary replaced.
SessionsAfterResetOfAll(user_id, current_date) ==
    [u \in {user_id} |-> NewSession(current_date)]

\* Lines 204-208: a new dictionary replaces the user's session.
SessionsAfterReset(user_id, current_date) ==
    [u \in DOMAIN user_sessions \cup {user_id} |->
        IF u = user_id THEN NewSession(current_date) ELSE user_sessions[u]]

\* A call in the middle of `request_count += 1` on the replaced dictionary
\* keeps that dictionary: its store no longer reaches user_sessions.
AfterResetOf(user_id, o) ==
    IF o.pc = "inc_write" /\ o.user_id = user_id
    THEN [o EXCEPT !.detached = TRUE]
    ELSE o

\* Lines 212-225: get_profile returns a profile with a display name, returns
\* something without one, or raises; the default name stays in the last two.
DisplayName(profile) ==
    IF profile = "named" THEN PROFILE_DISPLAY_NAME ELSE DEFAULT_DISPLAY_NAME

ProfileOutcomes == {"named", "unnamed", "error"}

\* A get_profile outside try/except: its exception ends handle_message
\* before the reply and reaches callback().
WelcomedUnlessProfileFails(c, profile, delivered) ==
    IF profile = "error"
    THEN Responding([c EXCEPT !.profile = profile, !.current_date = 0],
                    "exception")
    ELSE Returning([c EXCEPT !.profile = profile,
                             !.response_text =
                                 PersonalizedInitialMessage(
                                     DisplayName(profile))],
                   delivered)

\* The welcome reply without the `return` of line 243: the call goes on to
\* the quota check.
WelcomedWithoutReturn(c, profile, delivered) ==
    [c EXCEPT !.pc = "quota", !.profile = profile,
              !.response_text =
                  PersonalizedInitialMessage(DisplayName(profile)),
              !.sent = Dispatched(
                  [c EXCEPT !.response_text =
                      PersonalizedInitialMessage(DisplayName(profile))],
                  delivered)]

\* Lines 211-243: profile lookup, welcome reply, return.
Welcomed(c, profile, delivered) ==
    Returning([c EXCEPT !.profile = profile,
                        !.response_text =
                            PersonalizedInitialMessage(DisplayName(profile))],
              delivered)

\* Lines 204-243.
Reset(c) ==
    /\ c.pc = "reset"
    /\ user_sessions' = SessionsAfterReset(c.user_id, c.current_date)
    /\ \E profile \in ProfileOutcomes, delivered \in BOOLEAN :
          calls' = {AfterResetOf(c.user_id, o) : o \in calls \ {c}}
                   \cup {Welcomed(c, profile, delivered)}
    /\ UNCHANGED <<today, delivered_events>>

\* `>` in the place of `>=`.
QuotaExceededStrictly(session) ==
    session.request_count > MAX_GEMINI_REQUESTS_PER_DAY

\* Line 246.
QuotaExceeded(session) ==
    session.request_count >= MAX_GEMINI_REQUESTS_PER_DAY

\* The limit reply without the `return` of line 259: the call goes on to
\* the Gemini call.
LimitReachedWithoutReturn(c, delivered) ==
    [c EXCEPT !.pc = "ctx_len", !.path = "limit",
              !.response_text = GEMINI_LIMIT_MESSAGE,
              !.sent = Dispatched(
                  [c EXCEPT !.response_text = GEMINI_LIMIT_MESSAGE],
                  delivered)]

\* Lines 247-259: the limit reply and return.
LimitReached(c, delivered) ==
    Returning([c EXCEPT !.path = "limit",
                        !.response_text = GEMINI_LIMIT_MESSAGE], delivered)

\* Lines 246-259.
Quota(c) ==
    /\ c.pc = "quota"
    /\ IF QuotaExceeded(Session(c))
       THEN \E delivered \in BOOLEAN : Step(c, LimitReached(c, delivered))
       ELSE Step(c, [c EXCEPT !.pc = "ctx_len", !.path = "normal"])
    /\ UNCHANGED <<user_sessions, today, delivered_events>>

Max(a, b) == IF a >= b THEN a ELSE b

\* Line 270.
StartIndex(history) == Max(0, Len(history) - MAX_CONTEXT_TURNS * 2)

CtxLen(c) ==
    /\ c.pc = "ctx_len"
    /\ Step(c, [c EXCEPT !.pc = "ctx_slice",
                         !.start_index = StartIndex(Session(c).history)])
    /\ UNCHANGED <<user_sessions, today, delivered_events>>

\* Lines 263-276: the preamble, then history[start_index:] in order.
ChatHistoryForGemini(history, start_index) ==
    Preamble \o SubSeq(history, start_index + 1, Len(history))

\* A slice that is also stored: `history = history[start_index:]`.
CtxSliceTrimmingStore(c) ==
    /\ c.pc = "ctx_slice"
    /\ Step(c, [c EXCEPT
           !.pc = "ai", !.start_index = 0,
           !.chat_history =
               ChatHistoryForGemini(Session(c).history, c.start_index)])
    /\ user_sessions' =
          [user_sessions EXCEPT ![c.user_id].history =
              SubSeq(@, c.start_index + 1, Len(@))]
    /\ UNCHANGED <<today, delivered_events>>

CtxSlice(c) ==
    /\ c.pc = "ctx_slice"
    /\ Step(c, [c EXCEPT
           !.pc = "ai", !.start_index = 0,
           !.chat_history =
               ChatHistoryForGemini(Session(c).history, c.start_index)])
    /\ UNCHANGED <<user_sessions, today, delivered_events>>

\* What convo.send_message returns or does: a response with .text, a list
\* whose first element has .text, or an exception.  (A response of another
\* shape gets the fixed text of line 293 and goes the way of a generated
\* text; the runs do not draw it.)
GeminiOutcomes ==
    [kind : {"text", "list"}, text : GeneratedTexts]
    \cup {[kind |-> "raise", text |-> "-"]}

\* Lines 287-293.
ResponseText(gemini_response) ==
    IF gemini_response.kind \in {"text", "list"}
    THEN gemini_response.text
    ELSE UNEXPECTED_FORMAT_MESSAGE

\* An `except` that sets the apology and falls through to the update of
\* the session.
AfterGeminiFallingThrough(c, gemini_response, delivered) ==
    [c EXCEPT !.pc = "app_user", !.ai_calls = @ + 1,
              !.ai_result =
                  IF gemini_response.kind = "raise" THEN "raised" ELSE "ok",
              !.chat_history = <<>>,
              !.response_text =
                  IF gemini_response.kind = "raise"
                  THEN GEMINI_ERROR_MESSAGE
                  ELSE ResponseText(gemini_response)]

\* Lines 284-295; when the call raises, lines 309-325: the apology is
\* replied and handle_message returns.
AfterGemini(c, gemini_response, delivered) ==
    IF gemini_response.kind = "raise"
    THEN Returning([c EXCEPT !.ai_calls = @ + 1, !.ai_result = "raised",
                             !.chat_history = <<>>,
                             !.response_text = GEMINI_ERROR_MESSAGE],
                   delivered)
    ELSE [c EXCEPT !.pc = "app_user", !.ai_calls = @ + 1, !.ai_result = "ok",
                   !.chat_history = <<>>,
                   !.response_text = ResponseText(gemini_response)]

Gemini(c) ==
    /\ c.pc = "ai"
    /\ \E gemini_response \in GeminiOutcomes, delivered \in BOOLEAN :
          Step(c, AfterGemini(c, gemini_response, delivered))
    /\ UNCHANGED <<user_sessions, today, delivered_events>>

\* user_sessions[user_id][field] = value
Store(user_id, field, value) ==
    user_sessions' = [user_sessions EXCEPT ![user_id][field] = value]

\* Line 298.
AppendUser(c) ==
    /\ c.pc = "app_user"
    /\ Store(c.user_id, "history",
             Append(Session(c).history, <<"user", c.user_message>>))
    /\ Step(c, [c EXCEPT !.pc = "app_model"])
    /\ UNCHANGED <<today, delivered_events>>

\* Line 299.
AppendModel(c) ==
    /\ c.pc = "app_model"
    /\ Store(c.user_id, "history",
             Append(Session(c).history, <<"model", c.response_text>>))
    /\ Step(c, [c EXCEPT !.pc = "inc_read"])
    /\ UNCHANGED <<today, delivered_events>>

\* Line 302, `request_count += 1`: the load of the counter ...
IncRead(c) ==
    /\ c.pc = "inc_read"
    /\ Step(c, [c EXCEPT !.pc = "inc_write", !.detached = FALSE,
                         !.count_read = Session(c).request_count])
    /\ UNCHANGED <<user_sessions, today, delivered_events>>

\* ... and the store of the sum, into the dictionary the load was made from.
Incremented(count_read) == count_read + 1

IncWrite(c) ==
    /\ c.pc = "inc_write"
    /\ IF c.detached
       THEN UNCHANGED user_sessions
       ELSE Store(c.user_id, "request_count", Incremented(c.count_read))
    /\ Step(c, [c EXCEPT !.pc = "set_date", !.detached = FALSE,
                         !.count_read = 0])
    /\ UNCHANGED <<today, delivered_events>>

\* A reply whose failure takes the turn back out of the session.
SetDateUndoingOnFailure(c) ==
    /\ c.pc = "set_date"
    /\ \E delivered \in BOOLEAN :
          /\ Step(c, Returning(c, delivered))
          /\ user_sessions' =
                IF delivered
                THEN [user_sessions EXCEPT
                         ![c.user_id].last_request_date = c.current_date]
                ELSE [user_sessions EXCEPT
                         ![c.user_id].history = SubSeq(@, 1, Len(@) - 2),
                         ![c.user_id].request_count = Max(0, @ - 1)]
    /\ UNCHANGED <<today, delivered_events>>

\* Line 303, then lines 313-325: the reply with the generated text.
SetDate(c) ==
    /\ c.pc = "set_date"
    /\ Store(c.user_id, "last_request_date", c.current_date)
    /\ \E delivered \in BOOLEAN : Step(c, Returning(c, delivered))
    /\ UNCHANGED <<today, delivered_events>>

Handle(c) ==
    \/ Check(c) \/ Reset(c) \/ Quota(c)
    \/ CtxLen(c) \/ CtxSlice(c) \/ Gemini(c)
    \/ AppendUser(c) \/ AppendModel(c)
    \/ IncRead(c) \/ IncWrite(c) \/ SetDate(c)

Arrive(users) ==
    \E body \in Bodies(users) :
       \E signature \in HeadersFor(body) : Callback(body, signature)

Next ==
    \/ AdvanceDay
    \/ Arrive(OneUser)
    \/ \E c \in calls : Handle(c) \/ Respond(c)

Spec == Init /\ [][Next]_vars

\* The same, with the events of two users.
NextTwoUsers ==
    \/ AdvanceDay
    \/ Arrive(Users)
    \/ \E c \in calls : Handle(c) \/ Respond(c)

SpecTwoUsers == Init /\ [][NextTwoUsers]_vars

\* ------------------------------------------------------------ properties
\* The call c after a step: the call in flight that carries c's message.
Successors(c) == {d \in calls' : d.user_message = c.user_message}

OnlyReply(d, texts) ==
    /\ d.pc = "respond"
    /\ Len(d.sent) = 1
    /\ d.sent[1].text \in texts

EmptySession(session) ==
    session.history = <<>> /\ session.request_count = 0

\* C1: for every user, in every reachable state, request_count never
\* exceeds MAX_GEMINI_REQUESTS_PER_DAY (the quota check and the later
\* increment behave atomically under concurrent messages of the user).
C1_QuotaNeverExceeded ==
    \A u \in DOMAIN user_sessions :
        user_sessions[u].request_count <= MAX_GEMINI_REQUESTS_PER_DAY

\* C2: a message of a user with no session takes the new-session path: the
\* session created is empty with request_count 0 and the message's text is
\* not in it, the one reply dispatched is the welcome message, and Gemini
\* is not called.
C2_FirstMessageStep ==
    \A c \in calls :
        /\ (c.pc = "check" /\ c.user_id \notin DOMAIN user_sessions
                /\ Check(c))
           => /\ user_sessions' = user_sessions
              /\ \A d \in Successors(c) : d.pc = "reset" /\ d.ai_calls = 0
        /\ (c.pc = "reset" /\ c.seen = "no session" /\ Reset(c))
           => /\ EmptySession(user_sessions'[c.user_id])
              /\ \A d \in Successors(c) :
                    OnlyReply(d, WelcomeMessages) /\ d.ai_calls = 0

C2_FirstMessageWelcomed ==
    /\ [](\A c \in calls :
            c.path = "new" =>
               /\ c.pc \in {"reset", "respond"}
               /\ c.ai_calls = 0
               /\ c.pc = "respond" => OnlyReply(c, WelcomeMessages))
    /\ [][C2_FirstMessageStep]_vars

C2_Witness ==
    \E c \in calls :
        /\ c.pc = "respond" /\ c.seen = "no session"
        /\ OnlyReply(c, WelcomeMessages) /\ c.ai_calls = 0
        /\ EmptySession(user_sessions[c.user_id])

\* C3: when the quota check finds request_count at the limit, the one reply
\* dispatched is the limit message, Gemini is not called, and history and
\* request_count stay as they are; a session dated today is not reset.
C3_LimitStep ==
    \A c \in calls :
        /\ (c.pc = "check" /\ c.user_id \in DOMAIN user_sessions
                /\ Check(c))
           => (user_sessions[c.user_id].last_request_date = c.current_date
                  => /\ user_sessions' = user_sessions
                     /\ \A d \in Successors(c) : d.pc = "quota")
        /\ (c.pc = "quota" /\ Quota(c)
                /\ user_sessions[c.user_id].request_count
                       >= MAX_GEMINI_REQUESTS_PER_DAY)
           => /\ user_sessions' = user_sessions
              /\ \A d \in Successors(c) :
                    /\ OnlyReply(d, {GEMINI_LIMIT_MESSAGE})
                    /\ d.path = "limit" /\ d.ai_calls = 0

C3_LimitMessage ==
    /\ [](\A c \in calls :
            c.path = "limit" =>
               OnlyReply(c, {GEMINI_LIMIT_MESSAGE}) /\ c.ai_calls = 0)
    /\ [][C3_LimitStep]_vars

C3_Witness ==
    \E c \in calls :
        /\ c.path = "limit" /\ OnlyReply(c, {GEMINI_LIMIT_MESSAGE})
        /\ user_sessions[c.user_id].request_count
              = MAX_GEMINI_REQUESTS_PER_DAY
        /\ Len(user_sessions[c.user_id].history)
              = 2 * MAX_GEMINI_REQUESTS_PER_DAY

\* C4: in a normal turn whose Gemini call succeeds, line 298 appends
\* (user, user_message) and line 299 (model, response_text) at the end of
\* the stored history, line 302 raises the stored request_count by exactly
\* one, and the text replied is the generated text.
C4_SuccessfulTurnStep ==
    \A c \in calls :
        LET u == c.user_id IN
        /\ (c.pc = "app_user" /\ AppendUser(c))
           => user_sessions' =
                 [user_sessions EXCEPT ![u].history =
                     Append(@, <<"user", c.user_message>>)]
        /\ (c.pc = "app_model" /\ AppendModel(c))
           => user_sessions' =
                 [user_sessions EXCEPT ![u].history =
                     Append(@, <<"model", c.response_text>>)]
        /\ (c.pc = "inc_write" /\ IncWrite(c))
           => user_sessions'[u].request_count
                 = user_sessions[u].request_count + 1
        /\ (c.pc = "set_date" /\ SetDate(c))
           => \A d \in Successors(c) :
                 OnlyReply(d, GeneratedTexts) /\ d.ai_calls = 1

C4_SuccessfulTurn == [][C4_SuccessfulTurnStep]_vars

\* C5: in a normal turn whose Gemini call raises, the one reply dispatched
\* is the apology, and no step of the call, from the session check to the
\* reply, changes user_sessions: history and request_count are what they
\* were.
C5_FailedTurnStep ==
    \A c \in calls :
        /\ (c.pc \in {"quota", "ctx_len", "ctx_slice", "ai"} /\ Handle(c))
           => user_sessions' = user_sessions
        /\ (c.pc = "check" /\ Check(c))
           => user_sessions' = user_sessions
        /\ (c.pc = "ai" /\ Gemini(c))
           => \A d \in Successors(c) :
                 d.ai_result = "raised"
                    => OnlyReply(d, {GEMINI_ERROR_MESSAGE})

C5_FailedTurn ==
    /\ [](\A c \in calls :
            c.ai_result = "raised" =>
               /\ OnlyReply(c, {GEMINI_ERROR_MESSAGE})
               /\ c.path = "normal" /\ c.ai_calls = 1)
    /\ [][C5_FailedTurnStep]_vars

C5_Witness ==
    \E c \in calls :
        /\ c.ai_result = "raised" /\ OnlyReply(c, {GEMINI_ERROR_MESSAGE})
        /\ user_sessions[c.user_id].request_count = 1
        /\ Len(user_sessions[c.user_id].history) = 2

\* The last n entries of a sequence, in order.
LastEntries(seq, n) == SubSeq(seq, Len(seq) - n + 1, Len(seq))
Min(a, b) == IF a <= b THEN a ELSE b

\* C6: the list sent to Gemini is the two preamble turns followed by the
\* last min(|history|, 2 * MAX_CONTEXT_TURNS) entries of the stored history
\* in their order, so it has at most 2 + 2 * MAX_CONTEXT_TURNS entries.
C6_ContextStep ==
    \A c \in calls :
        (c.pc = "ctx_slice" /\ CtxSlice(c))
        => \A d \in Successors(c) :
              LET history == user_sessions[c.user_id].history IN
              /\ d.chat_history =
                    Preamble \o
                    LastEntries(history,
                                Min(Len(history), 2 * MAX_CONTEXT_TURNS))
              /\ Len(d.chat_history) <= 2 + 2 * MAX_CONTEXT_TURNS

C6_ContextWindow == [][C6_ContextStep]_vars

\* C7: a message that finds a session last used on another date takes the
\* new-session path whatever the session holds (request_count at the limit
\* included): the session is replaced by an empty one with request_count 0,
\* the one reply dispatched is the welcome message, not the limit message,
\* and Gemini is not called.
C7_RolloverStep ==
    \A c \in calls :
        /\ (c.pc = "check" /\ c.user_id \in DOMAIN user_sessions
                /\ user_sessions[c.user_id].last_request_date
                      # c.current_date
                /\ Check(c))
           => \A d \in Successors(c) :
                 d.pc = "reset" /\ d.seen # "no session"
        /\ (c.pc = "reset" /\ c.seen # "no session" /\ Reset(c))
           => /\ EmptySession(user_sessions'[c.user_id])
              /\ user_sessions'[c.user_id].last_request_date
                    = c.current_date
              /\ \A d \in Successors(c) :
                    OnlyReply(d, WelcomeMessages) /\ d.ai_calls = 0

C7_DailyReset == [][C7_RolloverStep]_vars

C7_Witness ==
    \E c \in calls :
        /\ c.pc = "respond" /\ c.seen = "other date, quota used up"
        /\ OnlyReply(c, WelcomeMessages) /\ c.ai_calls = 0
        /\ EmptySession(user_sessions[c.user_id])
        /\ user_sessions[c.user_id].last_request_date = today
        /\ today > 0

\* C8: the webhook call is answered without waiting for the Gemini call:
\* while a call waits for Gemini, its answer can already be given.
C8_AckDoesNotWaitForGemini ==
    \A c \in calls : c.pc = "ai" => ENABLED Respond(c)

\* C9: a webhook call whose signature header is missing, empty or not the
\* signature of its body is answered 400 and touches nothing: no session is
\* created or changed, Gemini is not called, nothing is replied, and for a
\* missing header no signature is compared.
C9_RejectedStep ==
    (calls' # calls /\ calls \subseteq calls') =>
    \A body \in Bodies(Users) :
        \A signature \in HeadersFor(body) :
            (Callback(body, signature)
                /\ (~signature.present
                       \/ signature.value # Hmac(CHANNEL_SECRET, body)))
            => /\ user_sessions' = user_sessions
               /\ delivered_events' = delivered_events
               /\ \E d \in calls' :
                     /\ d.pc = "respond" /\ d.status = 400
                     /\ ~d.authentic /\ d.sent = <<>> /\ d.ai_calls = 0
                     /\ calls' = calls \cup {d}
                     /\ (~signature.present \/ signature.value = <<>>)
                           => d.comparisons = 0

C9_UnauthenticatedRejected ==
    /\ [](\A c \in calls :
            ~c.authentic =>
               /\ c.pc = "respond" /\ c.status = 400
               /\ c.sent = <<>> /\ c.ai_calls = 0 /\ c.path = "-")
    /\ [][C9_RejectedStep]_vars
    /\ [][\A c \in calls :
             (Respond(c) /\ c.status = 400)
                => user_sessions' = user_sessions]_vars

C9_Witness ==
    \E c, d \in calls :
        /\ c.status = 400 /\ c.comparisons = 2
        /\ d.status = 400 /\ d.comparisons = 0
        /\ DOMAIN user_sessions # {}

TextMessageCall(c) == c.authentic /\ c.user_message # "-"

\* C11: every authenticated text message gets exactly one reply_message
\* attempt, made with its own reply token, on the welcome, limit, generated
\* text and apology paths alike; no token is used for a second attempt and
\* a failed attempt is not repeated.
C11_SentOnce ==
    \A c \in calls :
        /\ Len(c.sent) <= 1
        /\ \A i \in 1..Len(c.sent) : c.sent[i].reply_token = ReplyToken(c)
        /\ (c.pc = "respond" /\ TextMessageCall(c)) => Len(c.sent) = 1
        /\ c.pc # "respond" => c.sent = <<>>
        /\ ~TextMessageCall(c) => c.sent = <<>>
        /\ \A d \in calls :
              (c # d /\ c.sent # <<>> /\ d.sent # <<>>)
                 => c.sent[1].reply_token # d.sent[1].reply_token

C11_OneDispatchStep ==
    \A c \in calls :
        (TextMessageCall(c) /\ Handle(c))
        => \A d \in Successors(c) :
              /\ Len(d.sent) <= Len(c.sent) + 1
              /\ d.sent # c.sent => d.pc = "respond"

C11_OneDispatchPerToken == []C11_SentOnce /\ [][C11_OneDispatchStep]_vars

C11_Witness ==
    \E c, d \in calls :
        /\ c.pc = "respond" /\ c.path = "normal" /\ c.ai_result = "ok"
        /\ Len(c.sent) = 1 /\ ~c.sent[1].delivered
        /\ d.pc = "respond" /\ d.path = "limit"
        /\ Len(d.sent) = 1 /\ ~d.sent[1].delivered

\* C12: a user's session is reset once per calendar day, by the first
\* message seen after the date changed: no call resets a session that is
\* already dated the call's date (no second reset, no second welcome), and
\* request_count never decreases while the session's date stays the same.
C12_SingleResetStep ==
    /\ \A c \in calls :
          (c.pc = "reset" /\ Reset(c) /\ c.user_id \in DOMAIN user_sessions)
          => user_sessions[c.user_id].last_request_date # c.current_date
    /\ \A u \in DOMAIN user_sessions :
          user_sessions'[u].last_request_date
             = user_sessions[u].last_request_date
          => user_sessions'[u].request_count
                >= user_sessions[u].request_count

C12_SingleResetPerDay == [][C12_SingleResetStep]_vars

\* C13: no state a handler can read holds a half-reset session: a history
\* that a reset cleared is never paired with a counter that counts a turn
\* from before the reset, also when a call whose Gemini call began before
\* the reset finishes after it.
C13_NoHalfReset ==
    \A u \in DOMAIN user_sessions :
        user_sessions[u].history = <<>>
           => user_sessions[u].request_count = 0

\* The user has a call between the return of its Gemini call and the store
\* of its increment (lines 287-302).
MidUpdate(u) ==
    \E c \in calls :
        c.user_id = u
           /\ c.pc \in {"app_user", "app_model", "inc_read", "inc_write"}

\* The Gemini round trips recorded in a history: one model entry each.
RoundTrips(history) ==
    Cardinality({i \in DOMAIN history : history[i][1] = "model"})

\* C14: for every user, once the calls that completed a Gemini round trip
\* have stored their increment, request_count is the number of round trips
\* completed since the session was last reset: no interleaving of the
\* user's calls leaves a round trip uncounted.
C14_CountsRoundTrips ==
    \A u \in DOMAIN user_sessions :
        ~MidUpdate(u)
           => user_sessions[u].request_count
                 = RoundTrips(user_sessions[u].history)

\* C15: building the context window (lines 270-276) leaves user_sessions as
\* it is; the stored history only grows, one entry at a time at its end, and
\* keeps every entry until a reset replaces it by the empty one, however
\* much longer than 2 * MAX_CONTEXT_TURNS it is.
C15_WindowStep ==
    /\ \A c \in calls :
          (c.pc \in {"ctx_len", "ctx_slice"} /\ Handle(c))
          => user_sessions' = user_sessions
    /\ \A u \in DOMAIN user_sessions :
          LET old == user_sessions[u].history
              new == user_sessions'[u].history
          IN new # old
             => \/ Len(new) = Len(old) + 1 /\ SubSeq(new, 1, Len(old)) = old
                \/ /\ new = <<>>
                   /\ \E c \in calls :
                         c.pc = "reset" /\ c.user_id = u /\ Reset(c)

C15_WindowLeavesStore == [][C15_WindowStep]_vars

\* A window shorter than the stored history has been built, and the stored
\* history is still whole.
C15_Witness ==
    \E c \in calls :
        /\ c.pc = "ai"
        /\ Len(c.chat_history) = 2 + 2 * MAX_CONTEXT_TURNS
        /\ Len(user_sessions[c.user_id].history) > 2 * MAX_CONTEXT_TURNS
        /\ RoundTrips(user_sessions[c.user_id].history)
              > MAX_CONTEXT_TURNS

\* C16: a step of a call of user U (the call goes on or is answered), on
\* any path and whatever the calls of other users are doing, leaves the
\* session of every other user V as it is (history, request_count,
\* last_request_date), creates no session but U's and removes none; a step
\* in which no call goes on (an event arrives, the date changes) changes no
\* session; user_sessions holds one session per user_id.
C16_OtherUsersStep ==
    /\ \A c \in calls \ calls' :
          /\ DOMAIN user_sessions \subseteq DOMAIN user_sessions'
          /\ DOMAIN user_sessions'
                \subseteq DOMAIN user_sessions \cup {c.user_id}
          /\ \A v \in DOMAIN user_sessions \ {c.user_id} :
                user_sessions'[v] = user_sessions[v]
    /\ calls \subseteq calls' => user_sessions' = user_sessions

C16_OtherUsersUntouched ==
    /\ [](DOMAIN user_sessions \subseteq Users)
    /\ [][C16_OtherUsersStep]_vars

\* Calls of both users are in flight on sessions that both hold a turn.
C16_Witness ==
    \E c, d \in calls :
        /\ c.user_id = "u1" /\ d.user_id = "u2"
        /\ c.pc = "respond" /\ c.path = "new" /\ c.seen # "no session"
        /\ d.pc = "inc_write"
        /\ user_sessions["u2"].history # <<>>

\* C17: on the new-session path a get_profile that raises does not block
\* the reply: the session is initialized all the same, the welcome message
\* is replied once, with the default display name, Gemini is not called,
\* and the webhook call is answered 200.
C17_ProfileFailureStep ==
    \A c \in calls :
        (c.pc = "reset" /\ Reset(c))
        => /\ user_sessions'[c.user_id] = NewSession(c.current_date)
           /\ \A d \in Successors(c) :
                 /\ d.profile \in ProfileOutcomes
                 /\ OnlyReply(d, WelcomeMessages)
                 /\ d.profile # "named"
                       => d.sent[1].text
                             = PersonalizedInitialMessage(
                                   DEFAULT_DISPLAY_NAME)

C17_ProfileFailureWelcomed ==
    /\ [](\A c \in calls :
            c.profile = "error" =>
               /\ c.path = "new" /\ c.ai_calls = 0 /\ c.status = 200
               /\ OnlyReply(c, {PersonalizedInitialMessage(
                                   DEFAULT_DISPLAY_NAME)}))
    /\ [][C17_ProfileFailureStep]_vars

C17_Witness ==
    \E c \in calls :
        /\ c.profile = "error" /\ c.seen = "other date"
        /\ OnlyReply(c, {PersonalizedInitialMessage(DEFAULT_DISPLAY_NAME)})
        /\ c.sent[1].delivered
        /\ user_sessions[c.user_id] = NewSession(today)

\* user, model, user, model, ...
RolesAlternate(history) ==
    \A i \in DOMAIN history :
        history[i][1] = (IF i % 2 = 1 THEN "user" ELSE "model")

\* C18: whenever no call of the user is in the middle of its update, the
\* stored history has exactly 2 * request_count entries and its roles
\* alternate user, model, user, model, ..., whatever the interleaving of the
\* user's calls has been.
C18_HistoryShape ==
    \A u \in DOMAIN user_sessions :
        ~MidUpdate(u)
           => /\ Len(user_sessions[u].history)
                    = 2 * user_sessions[u].request_count
              /\ RolesAlternate(user_sessions[u].history)

\* C19: in a turn whose Gemini call succeeded nothing is replied until the
\* two appends and the increment have been executed; the reply, delivered
\* or not, and the answer to the webhook call leave history and
\* request_count as they are.
C19_UpdateBeforeReplyStep ==
    \A c \in calls :
        /\ (c.ai_result = "ok" /\ Handle(c))
           => \A d \in Successors(c) :
                 d.sent # c.sent
                    => /\ c.pc = "set_date"
                       /\ user_sessions'[c.user_id].history
                             = user_sessions[c.user_id].history
                       /\ user_sessions'[c.user_id].request_count
                             = user_sessions[c.user_id].request_count
        /\ Respond(c) => user_sessions' = user_sessions

C19_UpdateBeforeReply ==
    /\ [](\A c \in calls :
            c.pc \in {"app_user", "app_model", "inc_read", "inc_write",
                      "set_date"}
               => c.ai_result = "ok" /\ c.sent = <<>>)
    /\ [][C19_UpdateBeforeReplyStep]_vars

\* The reply of a successful turn failed; the turn is in the history and
\* counted.
C19_Witness ==
    \E c \in calls :
        LET session == user_sessions[c.user_id] IN
        /\ c.pc = "respond" /\ c.ai_result = "ok"
        /\ Len(c.sent) = 1 /\ ~c.sent[1].delivered
        /\ session.request_count = 1
        /\ session.history =
              << <<"user", c.user_message>>, <<"model", c.sent[1].text>> >>

\* C20: Gemini is called for a message only after the check of line 202
\* found the user's session dated the call's date and the check of line 246
\* found request_count below the limit; it is called at most once per
\* message, and never for an unauthenticated call or on the new-session or
\* limit paths.
C20_GeminiGuardStep ==
    \A c \in calls :
        /\ (c.pc = "check" /\ Check(c))
           => \A d \in Successors(c) :
                 d.pc # "reset"
                    => /\ d.pc = "quota"
                       /\ c.user_id \in DOMAIN user_sessions
                       /\ user_sessions[c.user_id].last_request_date
                             = c.current_date
        /\ (c.pc = "quota" /\ Quota(c))
           => \A d \in Successors(c) :
                 d.pc # "respond"
                    => /\ d.pc = "ctx_len" /\ d.path = "normal"
                       /\ user_sessions[c.user_id].request_count
                             < MAX_GEMINI_REQUESTS_PER_DAY
        /\ Handle(c)
           => \A d \in Successors(c) :
                 d.ai_calls # c.ai_calls
                    => /\ c.pc = "ai" /\ c.path = "normal" /\ c.ai_calls = 0
                       /\ d.ai_calls = 1

C20_GeminiOnlyOnNormalPath ==
    /\ [](\A c \in calls :
            /\ c.ai_calls <= 1
            /\ c.ai_calls = 1 => c.authentic /\ c.path = "normal"
            /\ c.pc \in {"ctx_len", "ctx_slice", "ai"}
                  => c.path = "normal" /\ c.ai_calls = 0)
    /\ [][C20_GeminiGuardStep]_vars

\* Gemini has been called for a message that passed the quota check with
\* one request left.
C20_Witness ==
    \E c \in calls :
        /\ c.pc = "app_user" /\ c.ai_calls = 1 /\ c.path = "normal"
        /\ user_sessions[c.user_id].last_request_date = c.current_date
        /\ user_sessions[c.user_id].request_count
              = MAX_GEMINI_REQUESTS_PER_DAY - 1
====
